---- MODULE Spec2Model ----
(***************************************************************************)
(* A model of the metricator crate (src/src/lib.rs): the RateMetric and    *)
(* the AggregateMetric<T> accumulators and the MinMaxAvg report.           *)
(*                                                                         *)
(* Numbers.  u8 keeps its width; the u32 event count is an unsigned        *)
(* integer of CountBits bits (u32 scaled down to what TLC's integers       *)
(* hold).  The element type T of the aggregate is a signed                 *)
(* two's-complement integer of TBits bits (i32 scaled down).  Integer       *)
(* overflow of `+` / `+=` is what the build makes of it: a panic when      *)
(* overflow checks are on (debug profile), a wrap when they are off        *)
(* (release profile); overflow_checks is the profile.                      *)
(* An f32 is modelled by the exact rational it rounds (a normalised        *)
(* fraction [num, den]); den = 0 stands for the IEEE results of a division *)
(* by 0.0: num = 1 is +inf, num = 0 is NaN.                                *)
(*                                                                         *)
(* Time.  Millis and MillisDuration (crate monotonic_time_rs, a            *)
(* dependency) are unsigned counts of milliseconds.  The caller supplies   *)
(* non-decreasing times; `now` is the latest time the caller supplied.     *)
(***************************************************************************)
EXTENDS Integers, Sequences, FiniteSets, TLC

\* ------------------------------------------------------------------ bounds
TBits == 5            \* width of the modelled element type T
CountBits == 4        \* width of the modelled RateMetric::count
MaxThreshold == 3     \* thresholds 0..MaxThreshold (and 255) are constructed
MaxAdds == 6          \* AggregateMetric::add calls in one run
MaxTicks == 4         \* the caller's clock runs over 0..MaxTicks ticks
TickMillis == 250     \* milliseconds per tick of the caller's clock
MaxPending == 3       \* events are counted while fewer than this are pending
MaxLongAdds == 300    \* add calls in one run of the long-batch specification

\* ------------------------------------------------------- program constants
U8Max == 255
DefaultIntervalMillis == 500

CountMax == 2 ^ CountBits - 1
TMax == 2 ^ (TBits - 1) - 1
TMin == 0 - 2 ^ (TBits - 1)
TDefault == 0

\* The inputs the caller draws from.
Samples == {TMin, -1, 2, TMax}
Thresholds == (0 .. MaxThreshold) \cup {U8Max}
Units == {"", "ms"}
TimePoints == {k * TickMillis : k \in 0 .. MaxTicks}
StartTimes == {0, TickMillis}
\* with_interval's f32 seconds, written in microseconds.
SecsInputs == {-500000, 0, 400, 250000, 500000}
AddAmounts == {2, CountMax}
\* The long-batch runs: every threshold new accepts, one sample value.
LongThresholds == 1 .. U8Max
LongSamples == {TDefault}

\* --------------------------------------------------------------------- f32
Abs(x) == IF x < 0 THEN 0 - x ELSE x

RECURSIVE Gcd(_, _)
Gcd(a, b) == IF b = 0 THEN a ELSE Gcd(b, a % b)

\* The f32 whose value is n / d for d # 0, normalised.
F32(n, d) ==
    IF d = 0 THEN [num |-> IF n = 0 THEN 0 ELSE 1, den |-> 0]
    ELSE LET g == Gcd(Abs(n), Abs(d))
             s == IF d < 0 THEN -1 ELSE 1
         IN [num |-> s * (n \div g), den |-> s * (d \div g)]

\* `x as f32`, x.to_f32(): an integer as a float.
ToF32(x) == F32(x, 1)

\* a / b on f32 (the numerators modelled are non-negative when b is 0).
F32Div(a, b) == F32(a.num * b.den, a.den * b.num)

F32Zero == F32(0, 1)

\* ------------------------------------------------------------------- state
VARIABLES
    overflow_checks,        \* the build profile: TRUE panics on integer overflow
    now,                    \* the latest time the caller supplied
    \* RateMetric
    rstate,                 \* "unbuilt", "live", or "panicked" (unwound)
    rate_count,             \* RateMetric::count: u32, CountBits wide
    last_calculated_at,     \* RateMetric::last_calculated_at: Millis
    average,                \* RateMetric::average: f32
    measurement_interval,   \* RateMetric::measurement_interval: MillisDuration
    panic_msg,              \* the message of the panic that unwound, or ""
    pending_total,          \* events counted since the last close, unbounded
    rop,                    \* the latest RateMetric call: arguments, pre-state, path
    \* AggregateMetric<T>
    astate,                 \* "unbuilt", "live", "err" (new returned Err), "panicked"
    sum, count, max, min, threshold, max_ack, min_ack, avg, avg_is_set, unit,
    err_msg,                \* the String of the Err that new returned, or ""
    new_arg,                \* the threshold new was called with, -1 before the call
    history                 \* every sample passed to add, in order

rvars == <<rstate, rate_count, last_calculated_at, average, measurement_interval,
           panic_msg, pending_total, rop, now>>
avars == <<astate, sum, count, max, min, threshold, max_ack, min_ack, avg,
           avg_is_set, unit, err_msg, new_arg, history>>
vars == <<overflow_checks, rvars, avars>>

\* ------------------------------------------------------------- dependency
\* MillisDuration::from_secs(seconds: f32) -> Result<MillisDuration, _> of
\* monotonic_time_rs: negative seconds are an Err, anything else is
\* (seconds * 1000.0) as u64, which truncates.  secs is in microseconds.
FromSecs(secs) ==
    IF secs < 0 THEN [ok |-> FALSE, millis |-> 0]
    ELSE [ok |-> TRUE, millis |-> secs \div 1000]

\* MillisDuration::as_secs(): the milliseconds as f32 seconds.
AsSecs(millis) == F32(millis, 1000)

\* -------------------------------------------------------------- RateMetric
NoRop == [op |-> "none", time |-> 0, n |-> 0, secs |-> 0, pre_count |-> 0,
          pre_at |-> 0, pre_avg |-> F32Zero, closed |-> FALSE, div0 |-> FALSE,
          prev_closed |-> FALSE, prev_time |-> 0, prev_op |-> "none",
          pre_total |-> 0, any_close |-> FALSE, window_open |-> 0,
          pre_open |-> 0]

\* The record of a call, given what it needs beyond the pre-state.
Rop(op, time, n, closed, div0) ==
    [op |-> op, time |-> time, n |-> n, secs |-> 0, pre_count |-> rate_count,
     pre_at |-> last_calculated_at, pre_avg |-> average, closed |-> closed,
     div0 |-> div0, prev_closed |-> rop.closed, prev_time |-> rop.time,
     prev_op |-> rop.op, pre_total |-> pending_total,
     any_close |-> (rop.any_close \/ closed),
     window_open |-> (IF closed THEN time ELSE rop.window_open),
     pre_open |-> rop.window_open]

\* RateMetric::new(time)
RateNew(time) ==
    /\ rstate = "unbuilt"
    /\ rstate' = "live"
    /\ rate_count' = 0
    /\ last_calculated_at' = time
    /\ measurement_interval' = DefaultIntervalMillis
    /\ average' = F32Zero
    /\ now' = time
    /\ rop' = [NoRop EXCEPT !.op = "new", !.time = time, !.window_open = time]
    /\ UNCHANGED <<panic_msg, pending_total, overflow_checks, avars>>

\* Mutation of with_interval: unwrap_or(default) in place of expect.
WithIntervalUnwrapOr(time, secs) ==
    LET r == FromSecs(secs) IN
    /\ rstate = "unbuilt"
    /\ rstate' = "live"
    /\ rate_count' = 0
    /\ last_calculated_at' = time
    /\ measurement_interval' = IF r.ok THEN r.millis ELSE DefaultIntervalMillis
    /\ average' = F32Zero
    /\ now' = time
    /\ rop' = [NoRop EXCEPT !.op = "with_interval", !.time = time, !.secs = secs,
                             !.window_open = time]
    /\ UNCHANGED <<panic_msg, pending_total, overflow_checks, avars>>

\* RateMetric::with_interval(time, measurement_interval): the Result of
\* from_secs is unwrapped with expect, which panics on an Err.
RateWithInterval(time, secs) ==
    LET r == FromSecs(secs) IN
    /\ rstate = "unbuilt"
    /\ IF r.ok
       THEN /\ rstate' = "live"
            /\ rate_count' = 0
            /\ last_calculated_at' = time
            /\ measurement_interval' = r.millis
            /\ average' = F32Zero
            /\ UNCHANGED panic_msg
       ELSE /\ rstate' = "panicked"
            /\ panic_msg' = "measurement interval should be positive"
            /\ UNCHANGED <<rate_count, last_calculated_at, measurement_interval,
                           average>>
    /\ now' = time
    /\ rop' = [NoRop EXCEPT !.op = "with_interval", !.time = time, !.secs = secs,
                             !.window_open = time]
    /\ UNCHANGED <<pending_total, overflow_checks, avars>>

\* Mutation of increment and add: the count is published as the rate.
CountPlusPublishes(op, n) ==
    /\ rate_count' = rate_count + n
    /\ pending_total' = pending_total + n
    /\ average' = ToF32(rate_count + n)
    /\ rop' = Rop(op, now, n, FALSE, FALSE)
    /\ UNCHANGED <<rstate, panic_msg, last_calculated_at, measurement_interval,
                   now, overflow_checks, avars>>

\* self.count += n on the u32: the sum, a panic (overflow checks on) or the
\* wrapped sum (overflow checks off).
CountPlus(op, n) ==
    /\ IF rate_count + n <= CountMax
       THEN /\ rate_count' = rate_count + n
            /\ pending_total' = pending_total + n
            /\ UNCHANGED <<rstate, panic_msg>>
       ELSE IF overflow_checks
       THEN /\ rstate' = "panicked"
            /\ panic_msg' = "attempt to add with overflow"
            /\ UNCHANGED <<rate_count, pending_total>>
       ELSE /\ rate_count' = (rate_count + n) % (CountMax + 1)
            /\ pending_total' = pending_total + n
            /\ UNCHANGED <<rstate, panic_msg>>
    /\ rop' = Rop(op, now, n, FALSE, FALSE)
    /\ UNCHANGED <<last_calculated_at, average, measurement_interval, now,
                   overflow_checks, avars>>

\* RateMetric::increment()
RateIncrement ==
    /\ rstate = "live"
    /\ pending_total < MaxPending
    /\ CountPlus("increment", 1)

\* RateMetric::add(count)
RateAdd(n) ==
    /\ rstate = "live"
    /\ pending_total < MaxPending
    /\ CountPlus("add", n)

\* time - self.last_calculated_at, for a time not before it.
ElapsedTime(time) == time - last_calculated_at

\* Mutation of the early-return test: update never returns early.
ReturnsEarlyNever(elapsed_time) == FALSE

\* Mutation of the early-return test: the comparison inverted.
ReturnsEarlyInverted(elapsed_time) == elapsed_time > measurement_interval

\* elapsed_time < self.measurement_interval: update returns early.
ReturnsEarly(elapsed_time) == elapsed_time < measurement_interval

\* Mutation of the rate: the interval as denominator, not the elapsed time.
ComputeRateByInterval(c, elapsed_time) ==
    F32Div(ToF32(c), AsSecs(measurement_interval))

\* self.count as f32 / elapsed_time.as_secs()
ComputeRate(c, elapsed_time) == F32Div(ToF32(c), AsSecs(elapsed_time))

\* Mutation of the window start: the next tick of the interval grid.
WindowStartOnGrid(time) == last_calculated_at + measurement_interval

\* self.last_calculated_at = time
WindowStart(time) == time

\* Mutation of update: the early return also resets the count.
UpdateDropsEarly(time) ==
    LET elapsed_time == ElapsedTime(time) IN
    /\ rstate = "live"
    /\ time >= now
    /\ now' = time
    /\ IF ReturnsEarly(elapsed_time)
       THEN /\ rop' = Rop("update", time, 0, FALSE, FALSE)
            /\ rate_count' = 0
            /\ UNCHANGED <<last_calculated_at, average, pending_total>>
       ELSE /\ average' = ComputeRate(rate_count, elapsed_time)
            /\ rate_count' = 0
            /\ last_calculated_at' = WindowStart(time)
            /\ pending_total' = 0
            /\ rop' = Rop("update", time, 0, TRUE, elapsed_time = 0)
    /\ UNCHANGED <<rstate, measurement_interval, panic_msg, overflow_checks, avars>>

\* RateMetric::update(time), time not before the times supplied so far.
RateUpdate(time) ==
    LET elapsed_time == ElapsedTime(time) IN
    /\ rstate = "live"
    /\ time >= now
    /\ now' = time
    /\ IF ReturnsEarly(elapsed_time)
       THEN /\ rop' = Rop("update", time, 0, FALSE, FALSE)
            /\ UNCHANGED <<rate_count, last_calculated_at, average, pending_total>>
       ELSE /\ average' = ComputeRate(rate_count, elapsed_time)
            /\ rate_count' = 0
            /\ last_calculated_at' = WindowStart(time)
            /\ pending_total' = 0
            /\ rop' = Rop("update", time, 0, TRUE, elapsed_time = 0)
    /\ UNCHANGED <<rstate, measurement_interval, panic_msg, overflow_checks, avars>>

\* RateMetric::rate()
Rate == average

\* The caller's clock moves on with no call on the meter.
ClockAdvance(time) ==
    /\ rstate = "live"
    /\ time > now
    /\ now' = time
    /\ UNCHANGED <<rstate, rate_count, last_calculated_at, average,
                   measurement_interval, panic_msg, pending_total, rop,
                   overflow_checks, avars>>

\* ---------------------------------------------------------------- MinMaxAvg
\* MinMaxAvg::new(min, avg, max)
MinMaxAvgNew(mn, a, mx) == [min |-> mn, avg |-> a, max |-> mx, unit |-> ""]

\* MinMaxAvg::with_unit(self, unit)
MinMaxAvgWithUnit(r, u) == [r EXCEPT !.unit = u]

\* --------------------------------------------------------- AggregateMetric
\* T's `+` when overflow checks are off: the two's-complement wrap.
WrapT(x) == ((x - TMin) % (2 ^ TBits)) + TMin

\* Mutation of the zero test: 1 is rejected too.
ThresholdIsZeroOrOne(th) == th <= 1

\* threshold == 0
ThresholdIsZero(th) == th = 0

\* AggregateMetric::new(threshold)
AggNew(th) ==
    /\ astate = "unbuilt"
    /\ new_arg' = th
    /\ IF ThresholdIsZero(th)
       THEN /\ astate' = "err"
            /\ err_msg' = "threshold can not be zero"
            /\ UNCHANGED <<sum, count, max, min, threshold, max_ack, min_ack, avg,
                           avg_is_set, unit>>
       ELSE /\ astate' = "live"
            /\ sum' = TDefault
            /\ count' = 0
            /\ max' = TDefault
            /\ min' = TDefault
            /\ threshold' = th
            /\ max_ack' = TMin
            /\ min_ack' = TMax
            /\ avg' = F32Zero
            /\ avg_is_set' = FALSE
            /\ unit' = ""
            /\ UNCHANGED err_msg
    /\ UNCHANGED <<history, overflow_checks, rvars>>

\* AggregateMetric::with_unit(self, unit)
AggWithUnit(u) ==
    /\ astate = "live"
    /\ unit' = u
    /\ UNCHANGED <<astate, sum, count, max, min, threshold, max_ack, min_ack, avg,
                   avg_is_set, err_msg, new_arg, history, overflow_checks, rvars>>

\* AggregateMetric::average()
Average == IF avg_is_set THEN [some |-> TRUE, avg |-> avg] ELSE [some |-> FALSE]

\* AggregateMetric::values()
Values ==
    IF avg_is_set
    THEN [some |-> TRUE, v |-> MinMaxAvgWithUnit(MinMaxAvgNew(min, avg, max), unit)]
    ELSE [some |-> FALSE]

\* Mutation of the pending maximum: the sample is not compared.
PendingMaxStale(value) == max_ack

\* if value > self.max_ack { self.max_ack = value }
PendingMax(value) == IF value > max_ack THEN value ELSE max_ack

\* Mutation of the pending minimum: the sample is not compared.
PendingMinStale(value) == min_ack

\* if value < self.min_ack { self.min_ack = value }
PendingMin(value) == IF value < min_ack THEN value ELSE min_ack

\* Mutation of the close test: the batch closes one add late.
ThresholdReachedLate(c) == c > threshold

\* Mutation of the close test: every add closes a batch.
ThresholdReachedAlways(c) == c >= 1

\* self.count >= self.threshold
ThresholdReached(c) == c >= threshold

\* Mutation of the mean: the divisor off by one.
BatchAvgOffByOne(s, c) == F32Div(ToF32(s), ToF32(c + 1))

\* self.sum.to_f32().unwrap_or(0.0) / self.count as f32; to_f32 of an
\* integer is always Some.
BatchAvg(s, c) == F32Div(ToF32(s), ToF32(c))

\* AggregateMetric::add(value)
AggAdd(value) ==
    LET exact == sum + value
        sum_overflows == exact > TMax \/ exact < TMin
        count_overflows == count + 1 > U8Max
        sum1 == IF sum_overflows THEN WrapT(exact) ELSE exact
        count1 == IF count_overflows THEN 0 ELSE count + 1
        max1 == PendingMax(value)
        min1 == PendingMin(value)
        avg_f32 == BatchAvg(sum1, count1)
    IN
    /\ astate = "live"
    /\ history' = Append(history, value)
    /\ IF overflow_checks /\ (sum_overflows \/ count_overflows)
       THEN /\ astate' = "panicked"
            /\ UNCHANGED <<sum, count, max, min, max_ack, min_ack, avg, avg_is_set>>
       ELSE IF ThresholdReached(count1)
       THEN /\ avg' = avg_f32
            /\ min' = min1
            /\ max' = max1
            /\ max_ack' = TMin
            /\ min_ack' = TMax
            /\ count' = 0
            /\ avg_is_set' = TRUE
            /\ sum' = TDefault
            /\ UNCHANGED astate
       ELSE /\ sum' = sum1
            /\ count' = count1
            /\ max_ack' = max1
            /\ min_ack' = min1
            /\ UNCHANGED <<astate, max, min, avg, avg_is_set>>
    /\ UNCHANGED <<threshold, unit, err_msg, new_arg, overflow_checks, rvars>>

\* add(value) while fewer than limit samples have been added.
AggAddWithin(limit, value) ==
    /\ Len(history) < limit
    /\ AggAdd(value)

\* ------------------------------------------------------------ specification
Init ==
    /\ overflow_checks \in BOOLEAN
    /\ now = 0
    /\ rstate = "unbuilt"
    /\ rate_count = 0
    /\ last_calculated_at = 0
    /\ average = F32Zero
    /\ measurement_interval = 0
    /\ panic_msg = ""
    /\ pending_total = 0
    /\ rop = NoRop
    /\ astate = "unbuilt"
    /\ sum = TDefault
    /\ count = 0
    /\ max = TDefault
    /\ min = TDefault
    /\ threshold = 0
    /\ max_ack = TMin
    /\ min_ack = TMax
    /\ avg = F32Zero
    /\ avg_is_set = FALSE
    /\ unit = ""
    /\ err_msg = ""
    /\ new_arg = -1
    /\ history = <<>>

NextRate ==
    \/ \E time \in StartTimes : RateNew(time)
    \/ \E time \in StartTimes, secs \in SecsInputs : RateWithInterval(time, secs)
    \/ RateIncrement
    \/ \E n \in AddAmounts : RateAdd(n)
    \/ \E time \in TimePoints : RateUpdate(time)
    \/ \E time \in TimePoints : ClockAdvance(time)

NextAgg ==
    \/ \E th \in Thresholds : AggNew(th)
    \/ \E u \in Units : AggWithUnit(u)
    \/ \E value \in Samples : AggAddWithin(MaxAdds, value)

NextAggLong ==
    \/ \E th \in LongThresholds : AggNew(th)
    \/ \E value \in LongSamples : AggAddWithin(MaxLongAdds, value)

\* A RateMetric and its owner.
SpecRate == Init /\ [][NextRate]_vars

\* An AggregateMetric and its owner.
SpecAgg == Init /\ [][NextAgg]_vars

\* An AggregateMetric of any threshold in 1..=255 fed long runs of samples.
SpecAggLong == Init /\ [][NextAggLong]_vars

\* ------------------------------------------------------ reference statistics
RECURSIVE SeqSum(_)
SeqSum(s) == IF s = <<>> THEN 0 ELSE Head(s) + SeqSum(Tail(s))

SeqMin(s) == CHOOSE x \in {s[i] : i \in DOMAIN s} : \A i \in DOMAIN s : x <= s[i]

SeqMax(s) == CHOOSE x \in {s[i] : i \in DOMAIN s} : \A i \in DOMAIN s : x >= s[i]

\* The float a is the mean of the samples s.
IsMeanOf(a, s) == a.den > 0 /\ a.num * Len(s) = a.den * SeqSum(s)

\* The number of whole batches in the samples added, and the N-th of them.
Batches == Len(history) \div threshold
Batch(N) == SubSeq(history, (N - 1) * threshold + 1, N * threshold)

\* Some prefix sum of the samples s leaves T's range.
SumLeavesT(s) == \E i \in DOMAIN s : LET p == SeqSum(SubSeq(s, 1, i))
                                     IN p > TMax \/ p < TMin

\* The samples after the last whole batch.
Partial == SubSeq(history, Batches * threshold + 1, Len(history))

\* The running sum of some batch, whole or partial, leaves T's range.
Overflowed == \/ \E N \in 1 .. Batches : SumLeavesT(Batch(N))
              \/ SumLeavesT(Partial)

\* new returned Ok: there is (or, after a panic, was) a meter.
Built == astate \in {"live", "panicked"}

\* The report is present and is the min, mean and max of the samples s.
ReportIs(s) ==
    /\ Values.some
    /\ Values.v.min = SeqMin(s)
    /\ Values.v.max = SeqMax(s)
    /\ IsMeanOf(Values.v.avg, s)
    /\ Average.some
    /\ Average.avg = Values.v.avg

NoReport == ~Average.some /\ ~Values.some

\* ------------------------------------------------------------------ claims
\* C1: for every threshold k and samples v1..vn added to a fresh meter,
\* average() and values() are None after fewer than k adds, and right after
\* the k-th add values() holds the min, max and mean of v1..vk and average()
\* the same mean.
C1_FirstReport ==
    Built =>
        /\ Len(history) < threshold => NoReport
        /\ Len(history) = threshold => ReportIs(history)

\* Every report when no running sum leaves T's range: no panic, no report
\* before the first whole batch, and then the statistics of the last whole
\* batch.
ReportsInRange ==
    (Built /\ ~Overflowed) =>
        /\ astate = "live"
        /\ Batches = 0 => NoReport
        /\ Batches >= 1 => ReportIs(Batch(Batches))

\* C2: after a batch close, the adds before the add that closes the next
\* batch leave values() and average() as they were.
C2_StableBetweenCloses ==
    [][(Built /\ Len(history) >= threshold /\ history' # history
            /\ Len(history') % threshold # 0)
        => (Values' = Values /\ Average' = Average)]_vars

C2_Witness ==
    /\ astate = "live"
    /\ Len(history) > threshold
    /\ Len(history) % threshold # 0
    /\ Values.some
    /\ history[Len(history)] < Values.v.min

\* C3: right after the N-th batch close the report is the min, max and mean
\* of exactly the samples (N-1)*k+1 .. N*k.
C3_ReportOfBatchN ==
    (Built /\ Batches >= 1 /\ Len(history) % threshold = 0)
        => ReportIs(Batch(Batches))

\* C6: new(0) returns Err("threshold can not be zero") and no meter; any
\* threshold in 1..=255 gives a meter with count 0 and no report.
C6_NewZeroIsError ==
    /\ new_arg = 0 => astate = "err"
    /\ astate = "err" =>
        /\ new_arg = 0
        /\ err_msg = "threshold can not be zero"
        /\ threshold = 0 /\ history = <<>> /\ NoReport
    /\ new_arg \in 1 .. U8Max =>
        /\ Built
        /\ err_msg = ""
        /\ threshold = new_arg
        /\ history = <<>> => (astate = "live" /\ count = 0 /\ NoReport)

C6_Witness == astate = "err" /\ new_arg = 0 /\ err_msg # ""

\* C10: with threshold 1 every add(v) leaves values() present with
\* min = max = v, avg = v, and count 0.
C10_ThresholdOne ==
    (Built /\ threshold = 1 /\ history # <<>>) =>
        LET v == history[Len(history)] IN
        /\ astate = "live"
        /\ Values.some
        /\ Values.v.min = v
        /\ Values.v.max = v
        /\ Values.v.avg.num = v /\ Values.v.avg.den = 1
        /\ Average = [some |-> TRUE, avg |-> Values.v.avg]
        /\ count = 0

C10_Witness ==
    /\ astate = "live"
    /\ threshold = 1
    /\ Len(history) >= 2
    /\ history[Len(history)] > history[Len(history) - 1]
    /\ Values.some
    /\ Values.v.max = TMax

\* The elapsed time the latest update call saw.
RopElapsed == rop.time - rop.pre_at

\* The float a is c events over e milliseconds, in events per second.
IsRateOf(a, c, e) ==
    IF e > 0 THEN a.den > 0 /\ a.num * e = a.den * c * 1000
    ELSE a.den = 0

\* C4: an update(now) with elapsed e = now - window_start >= I and c events
\* counted sets rate() to c / e, count to 0 and window_start to now.
C4_CloseSetsRate ==
    (rstate = "live" /\ rop.op = "update" /\ RopElapsed >= measurement_interval) =>
        /\ IsRateOf(Rate, rop.pre_count, RopElapsed)
        /\ rate_count = 0
        /\ last_calculated_at = rop.time

C4_Witness ==
    /\ rstate = "live"
    /\ rop.op = "update"
    /\ measurement_interval > 0
    /\ RopElapsed > measurement_interval
    /\ rop.pre_count > 0
    /\ rop.closed
    /\ Rate # rop.pre_avg

\* C5: an update(now) with now - window_start < I changes none of rate(),
\* count and window_start.
C5_EarlyUpdateIsNoop ==
    (rop.op = "update" /\ RopElapsed < measurement_interval) =>
        /\ rstate = "live"
        /\ Rate = rop.pre_avg
        /\ rate_count = rop.pre_count
        /\ last_calculated_at = rop.pre_at

C5_Witness ==
    /\ rop.op = "update"
    /\ RopElapsed < measurement_interval
    /\ RopElapsed > 0
    /\ rop.pre_count > 0
    /\ Rate # F32Zero
    /\ ~rop.closed

C8_RepeatedUpdate ==
    (rop.op = "update" /\ rop.prev_op = "update" /\ rop.prev_closed
            /\ rop.prev_time = rop.time) =>
        /\ RopElapsed = 0
        /\ ~rop.closed
        /\ ~rop.div0
        /\ Rate = rop.pre_avg
        /\ rate_count = rop.pre_count
        /\ last_calculated_at = rop.pre_at

\* C8 for the meters whose interval is positive.
RepeatedUpdatePositiveInterval ==
    (rop.op = "update" /\ rop.prev_op = "update" /\ rop.prev_closed
            /\ rop.prev_time = rop.time /\ measurement_interval > 0) =>
        /\ RopElapsed = 0
        /\ ~rop.closed
        /\ ~rop.div0
        /\ Rate = rop.pre_avg
        /\ rate_count = rop.pre_count
        /\ last_calculated_at = rop.pre_at

\* C9: the count a closing update divides is the total of the increments and
\* add(n) amounts since the previous close, early-returning updates in
\* between included; while that total fits the count's width the count
\* neither wraps nor panics.
C9_NoEventsLost ==
    /\ (rstate = "live" /\ pending_total <= CountMax) => rate_count = pending_total
    /\ (rop.op = "update" /\ rop.closed /\ rop.pre_total <= CountMax) =>
        /\ rop.pre_count = rop.pre_total
        /\ IsRateOf(Rate, rop.pre_total, RopElapsed)
    /\ (rstate = "panicked" /\ rop.op \in {"increment", "add"}) =>
        rop.pre_total + rop.n > CountMax

C9_Witness ==
    /\ rop.op = "update"
    /\ rop.closed
    /\ rop.prev_op = "update"
    /\ ~rop.prev_closed
    /\ rop.pre_count > 1
    /\ rop.pre_count = rop.pre_total
    /\ Rate.num > 0

\* ---------------------------------------------------------- claims, part 2
\* Every sample added so far is x.
AllEqual(x) == \A i \in DOMAIN history : history[i] = x

\* C11: for every threshold k and sample x, T's minimum and maximum
\* included, adding x exactly k times yields values() with min = max = x and
\* avg = x.
C11_AllEqual ==
    \A x \in Samples :
        (Built /\ Len(history) = threshold /\ AllEqual(x)) =>
            /\ Values.some
            /\ Values.v.min = x
            /\ Values.v.max = x
            /\ Values.v.avg.num = x /\ Values.v.avg.den = 1

\* The extremes of C11, for every add that returned: strict comparison
\* against the seeds leaves min = max = x also for T's minimum and maximum.
AllEqualExtremes ==
    \A x \in Samples :
        (astate = "live" /\ Len(history) = threshold /\ AllEqual(x)) =>
            /\ Values.some
            /\ Values.v.min = x
            /\ Values.v.max = x
            /\ ~Overflowed => (Values.v.avg.num = x /\ Values.v.avg.den = 1)

\* C13: after construction and after every add 0 <= count < threshold, and
\* count is 0 exactly after every threshold-th add.
C13_CountBelowThreshold ==
    Built =>
        /\ 0 <= count
        /\ count < threshold
        /\ astate = "live" => count = Len(history) % threshold

C13_Witness ==
    /\ astate = "live"
    /\ threshold >= 2
    /\ Len(history) > threshold
    /\ count = threshold - 1

\* C14: whenever a report exists, last_min <= last_avg <= last_max.
C14_AvgBetweenExtremes ==
    (Built /\ avg_is_set) =>
        /\ avg.den > 0
        /\ min * avg.den <= avg.num
        /\ avg.num <= max * avg.den

\* C14 when no running sum leaves T's range.
AvgBetweenExtremesInRange ==
    (Built /\ avg_is_set /\ ~Overflowed) =>
        /\ avg.den > 0
        /\ min * avg.den <= avg.num
        /\ avg.num <= max * avg.den

\* C15: has_report is false until the threshold-th add returns, true from
\* then on, and no operation makes it false again: once values() is present
\* it stays present.
C15_ReportIsOneWay ==
    [][/\ astate' = "live" => (avg_is_set' <=> Len(history') >= threshold')
       /\ avg_is_set => avg_is_set'
       /\ Values.some => (Values'.some /\ Average'.some)]_vars

C15_Witness ==
    /\ astate = "live"
    /\ threshold >= 2
    /\ Len(history) > threshold
    /\ Len(history) % threshold # 0
    /\ unit = "ms"
    /\ Values.some

\* C19: pending_min <= v <= pending_max for every sample v added since the
\* last close (or construction); right after a close or construction the
\* pending pair is (T's maximum, T's minimum) and sum is 0.
C19_PendingExtremes ==
    astate = "live" =>
        /\ \A i \in DOMAIN Partial :
              min_ack <= Partial[i] /\ Partial[i] <= max_ack
        /\ Partial # <<>> =>
              (min_ack = SeqMin(Partial) /\ max_ack = SeqMax(Partial))
        /\ Partial = <<>> =>
              (min_ack = TMax /\ max_ack = TMin /\ sum = TDefault)

C19_Witness ==
    /\ astate = "live"
    /\ Len(history) > threshold
    /\ Len(Partial) >= 2
    /\ min_ack < max_ack
    /\ max_ack < max

\* C12: rate() is 0 from construction until the first update with elapsed
\* >= interval and changes only in such an update; increment and add(n)
\* change neither rate() nor window_start, whatever time has passed.
C12_RateChangesOnlyAtClose ==
    /\ (rstate = "live" /\ ~rop.any_close) => Rate = F32Zero
    /\ rop.op \in {"increment", "add"} =>
          (Rate = rop.pre_avg /\ last_calculated_at = rop.pre_at)
    /\ (rop.op = "update" /\ Rate # rop.pre_avg) =>
          RopElapsed >= measurement_interval

C12_Witness ==
    /\ rstate = "live"
    /\ rop.op = "add"
    /\ ~rop.any_close
    /\ rate_count > 1
    /\ now - last_calculated_at > measurement_interval
    /\ measurement_interval > 0
    /\ Rate = F32Zero

\* C16: every change of rate() is computed over an elapsed time >= interval,
\* and successive closes, and construction and the first close, are at least
\* interval apart in the caller's time.
C16_NoSubIntervalWindow ==
    /\ (rop.op = "update" /\ Rate # rop.pre_avg) =>
          (rop.closed /\ RopElapsed >= measurement_interval)
    /\ (rop.op = "update" /\ rop.closed) =>
          /\ rop.time - rop.pre_open >= measurement_interval
          /\ RopElapsed >= measurement_interval
          /\ rop.window_open = rop.time

C16_Witness ==
    /\ rop.op = "update"
    /\ rop.closed
    /\ rop.pre_open > TickMillis
    /\ measurement_interval > 0
    /\ rop.time - rop.pre_open = measurement_interval
    /\ rop.pre_avg # F32Zero

\* C17: whenever update computes a rate the elapsed time it divides by is
\* > 0: every meter built by new or with_interval has a positive interval
\* and no division by zero is reachable.
C17_NoDivisionByZero ==
    (rop.op = "update" /\ rop.closed) =>
        /\ measurement_interval > 0
        /\ RopElapsed > 0
        /\ ~rop.div0
        /\ Rate.den > 0

\* C17 for the meters RateMetric::new builds.
NoDivisionByZeroDefault ==
    (rstate = "live" /\ measurement_interval = DefaultIntervalMillis) =>
        /\ (rop.op = "update" /\ rop.closed) => (RopElapsed > 0 /\ ~rop.div0)
        /\ Rate.den > 0

\* C18: under non-decreasing caller times last_calculated_at never moves
\* backwards, changes only in a closing update, and becomes that update's
\* now, not window_start + interval.
C18_WindowStartMonotonic ==
    [][(rstate = "live" /\ rstate' = "live") =>
          /\ last_calculated_at' >= last_calculated_at
          /\ last_calculated_at' # last_calculated_at =>
                (rop'.op = "update" /\ rop'.closed)
          /\ (rop' # rop /\ rop'.op = "update"
                  /\ rop'.time - last_calculated_at >= measurement_interval) =>
                last_calculated_at' = rop'.time]_vars

C18_Witness ==
    /\ rstate = "live"
    /\ rop.op = "update"
    /\ rop.closed
    /\ measurement_interval > 0
    /\ rop.pre_at > 0
    /\ last_calculated_at = rop.time
    /\ last_calculated_at > rop.pre_at + measurement_interval

\* C20: the u8 count never overflows: for every threshold in 1..=255, when
\* add executes count += 1 the stored count is < threshold <= 255, so the
\* incremented value is at most 255 and the close fires before a wrap.
C20_CountNeverOverflows ==
    Built =>
        /\ astate = "live"
        /\ threshold <= U8Max
        /\ count < threshold
        /\ count + 1 <= U8Max
        /\ count = Len(history) % threshold

C20_Witness ==
    /\ astate = "live"
    /\ threshold = U8Max
    /\ count = U8Max - 1
    /\ Len(history) = U8Max - 1

====
